---------------------------- MODULE Spec2Model ----------------------------
(***************************************************************************)
(* A model of pycomm3's SLC driver (src/pycomm3/slc.py): the PCCC address  *)
(* grammar (parse_tag), the value packing of writes (writeable_value), the *)
(* read/write round trips of SLCDriver and its file-directory discovery.   *)
(*                                                                         *)
(* Strings are sequences of one-character strings.  Python values are      *)
(* records [t, n, s]: t is the Python type, n the number (for a float the  *)
(* number of sixteenths, which is exact for every float the driver         *)
(* computes), s the characters of a str.                                   *)
(***************************************************************************)
EXTENDS Integers, Sequences, FiniteSets, TLC

(***************************************************************************)
(* Python values                                                           *)
(***************************************************************************)
PyNone == [t |-> "None", n |-> 0, s |-> <<>>]
PyAbsent == [t |-> "absent", n |-> 0, s |-> <<>>]
PyInt(k) == [t |-> "int", n |-> k, s |-> <<>>]
PyStr(str) == [t |-> "str", n |-> 0, s |-> str]
\* a float, held as its number of sixteenths
PyFloat16(k) == [t |-> "float", n |-> k, s |-> <<>>]
PyBool(b) == [t |-> "bool", n |-> IF b THEN 1 ELSE 0, s |-> <<>>]

Min(S) == CHOOSE x \in S : \A y \in S : x <= y
Max(S) == CHOOSE x \in S : \A y \in S : x >= y

(***************************************************************************)
(* Characters                                                              *)
(***************************************************************************)
Digits == <<"0", "1", "2", "3", "4", "5", "6", "7", "8", "9">>
IsDigit(c) == \E k \in 1..10 : Digits[k] = c
DigitVal(c) == (CHOOSE k \in 1..10 : Digits[k] = c) - 1

LowerCase == <<"a", "b", "c", "d", "e", "f", "g", "h", "i", "j", "k", "l", "m",
               "n", "o", "p", "q", "r", "s", "t", "u", "v", "w", "x", "y", "z">>
UpperCase == <<"A", "B", "C", "D", "E", "F", "G", "H", "I", "J", "K", "L", "M",
               "N", "O", "P", "Q", "R", "S", "T", "U", "V", "W", "X", "Y", "Z">>
\* str.upper() on one character
Upper(c) == IF \E k \in 1..26 : LowerCase[k] = c
            THEN UpperCase[CHOOSE k \in 1..26 : LowerCase[k] = c]
            ELSE c
UpperStr(str) == [k \in 1..Len(str) |-> Upper(str[k])]

\* int(str) for a str of decimal digits
RECURSIVE StrToInt(_)
StrToInt(str) ==
    IF str = <<>> THEN 0
    ELSE 10 * StrToInt(SubSeq(str, 1, Len(str) - 1)) + DigitVal(str[Len(str)])

\* str(n) for n >= 0
RECURSIVE IntToStr(_)
IntToStr(k) ==
    IF k < 10 THEN <<Digits[k + 1]>>
    ELSE IntToStr(k \div 10) \o <<Digits[(k % 10) + 1]>>

\* Python's int(x) for the values a tag dict holds
ToInt(v) ==
    CASE v.t = "str" -> StrToInt(v.s)
      [] v.t = "float" -> v.n \div 16
      [] OTHER -> v.n

(***************************************************************************)
(* Regular-expression pieces of parse_tag.  re.search is unanchored: the   *)
(* leftmost position at which the pattern matches wins, and at that        *)
(* position the quantifiers are greedy with backtracking.                  *)
(***************************************************************************)
\* how many characters \d{1,max} takes greedily at position i
RECURSIVE DigitRun(_, _, _)
DigitRun(str, i, max) ==
    IF max = 0 \/ i > Len(str) THEN 0
    ELSE IF ~IsDigit(str[i]) THEN 0
    ELSE 1 + DigitRun(str, i + 1, max - 1)

CharAt(str, i, c) == i <= Len(str) /\ str[i] = c
\* case-insensitive match of the literal lit at position i
LitAt(str, i, lit) ==
    /\ i + Len(lit) - 1 <= Len(str)
    /\ \A k \in 1..Len(lit) : Upper(str[i + k - 1]) = lit[k]

\* length matched by (/(?P<sub_element>\d{1,2}))? at position j (0: group unmatched)
OptBit(str, j) ==
    IF CharAt(str, j, "/") /\ DigitRun(str, j + 1, 2) >= 1
    THEN 1 + DigitRun(str, j + 1, 2)
    ELSE 0

\* length matched by (?P<_elem_cnt_token>{(?P<element_count>\d+)})? at position j
OptCnt(str, j) ==
    LET k == DigitRun(str, j + 1, Len(str))
    IN  IF CharAt(str, j, "{") /\ k >= 1 /\ CharAt(str, j + 1 + k, "}")
        THEN k + 2
        ELSE 0

\* length matched by (?P<_elem_cnt_token>{(?P<element_count>[12])})? at position j
OptCnt12(str, j) ==
    IF CharAt(str, j, "{") /\ (CharAt(str, j + 1, "1") \/ CharAt(str, j + 1, "2"))
       /\ CharAt(str, j + 2, "}")
    THEN 3
    ELSE 0

\* the alternatives ACC|PRE|EN|DN|TT|CU|CD|DN|OV|UN|UA, in the pattern's order
NamedFields == << <<"A", "C", "C">>, <<"P", "R", "E">>, <<"E", "N">>, <<"D", "N">>,
                  <<"T", "T">>, <<"C", "U">>, <<"C", "D">>, <<"D", "N">>,
                  <<"O", "V">>, <<"U", "N">>, <<"U", "A">> >>
\* index of the first alternative that matches at position i (0: none)
NamedAt(str, i) ==
    LET K == {k \in 1..Len(NamedFields) : LitAt(str, i, NamedFields[k])}
    IN  IF K = {} THEN 0 ELSE Min(K)

NoMatch == [ok |-> FALSE]

\* a match object: the text of group 0 and of the named groups
\* (has_sub / has_cnt: whether the optional group took part in the match)
MatchObj(str, i, e, ft, fn, en, pn, subLen, subAt, cntLen, cntAt) ==
    [ok |-> TRUE,
     g0 |-> SubSeq(str, i, e - 1),
     file_type |-> ft, file_number |-> fn, element_number |-> en,
     position_number |-> pn,
     has_sub |-> subLen > 0,
     sub_element |-> IF subLen > 0 THEN SubSeq(str, subAt, subAt + subLen - 1) ELSE <<>>,
     has_cnt |-> cntLen > 0,
     elem_cnt_token |-> IF cntLen > 0 THEN SubSeq(str, cntAt, cntAt + cntLen - 1) ELSE <<>>,
     element_count |-> IF cntLen > 0 THEN SubSeq(str, cntAt + 1, cntAt + cntLen - 2) ELSE <<>>]

\* [CT]\d{1,3}:\d{1,3}.(ACC|PRE|...) at position i.  The element digits give
\* back characters until "any character, then a field name" follows them.
Rule1At(str, i) ==
    LET k1 == DigitRun(str, i + 1, 3)
        e0 == i + 2 + k1
        K  == {k \in 1..DigitRun(str, e0, 3) :
                  e0 + k <= Len(str) /\ NamedAt(str, e0 + k + 1) # 0}
    IN  IF /\ i <= Len(str) /\ Upper(str[i]) \in {"C", "T"}
           /\ k1 >= 1 /\ CharAt(str, i + 1 + k1, ":")
           /\ K # {}
        THEN LET k2 == Max(K)
                 nm == NamedAt(str, e0 + k2 + 1)
                 e  == e0 + k2 + 1 + Len(NamedFields[nm])
             IN  MatchObj(str, i, e, <<str[i]>>, SubSeq(str, i + 1, i + k1),
                          SubSeq(str, e0, e0 + k2 - 1), <<>>,
                          Len(NamedFields[nm]), e0 + k2 + 1, 0, 0)
        ELSE NoMatch

\* [LFBN]\d{1,3}:\d{1,3}(/\d{1,2})?({\d+})? at position i
Rule2At(str, i) ==
    LET k1 == DigitRun(str, i + 1, 3)
        e0 == i + 2 + k1
        k2 == DigitRun(str, e0, 3)
        b  == OptBit(str, e0 + k2)
        c  == OptCnt(str, e0 + k2 + b)
    IN  IF /\ i <= Len(str) /\ Upper(str[i]) \in {"L", "F", "B", "N"}
           /\ k1 >= 1 /\ CharAt(str, i + 1 + k1, ":")
           /\ k2 >= 1
        THEN MatchObj(str, i, e0 + k2 + b + c, <<str[i]>>, SubSeq(str, i + 1, i + k1),
                      SubSeq(str, e0, e0 + k2 - 1), <<>>,
                      b - 1, e0 + k2 + 1, c, e0 + k2 + b)
        ELSE NoMatch

\* [IO]:\d{1,3}.\d{1,3}(/\d{1,2})?({\d+})? at position i.  The element digits
\* give back characters until "any character, then a digit" follows them.
Rule3At(str, i) ==
    LET e0 == i + 2
        K  == {k \in 1..DigitRun(str, e0, 3) : DigitRun(str, e0 + k + 1, 3) >= 1}
    IN  IF /\ i <= Len(str) /\ Upper(str[i]) \in {"I", "O"}
           /\ CharAt(str, i + 1, ":")
           /\ K # {}
        THEN LET k2 == Max(K)
                 p0 == e0 + k2 + 1
                 k3 == DigitRun(str, p0, 3)
                 b  == OptBit(str, p0 + k3)
                 c  == OptCnt(str, p0 + k3 + b)
             IN  MatchObj(str, i, p0 + k3 + b + c, <<str[i]>>, <<>>,
                          SubSeq(str, e0, e0 + k2 - 1), SubSeq(str, p0, p0 + k3 - 1),
                          b - 1, p0 + k3 + 1, c, p0 + k3 + b)
        ELSE NoMatch

\* ST\d{1,3}:\d{1,4}({[12]})? at position i
Rule4At(str, i) ==
    LET k1 == DigitRun(str, i + 2, 3)
        e0 == i + 3 + k1
        k2 == DigitRun(str, e0, 4)
        c  == OptCnt12(str, e0 + k2)
    IN  IF /\ LitAt(str, i, <<"S", "T">>)
           /\ k1 >= 1 /\ CharAt(str, i + 2 + k1, ":")
           /\ k2 >= 1
        THEN MatchObj(str, i, e0 + k2 + c, SubSeq(str, i, i + 1),
                      SubSeq(str, i + 2, i + 1 + k1),
                      SubSeq(str, e0, e0 + k2 - 1), <<>>, 0, 0, c, e0 + k2)
        ELSE NoMatch

\* A\d{1,3}:\d{1,4}({\d+})? at position i
Rule5At(str, i) ==
    LET k1 == DigitRun(str, i + 1, 3)
        e0 == i + 2 + k1
        k2 == DigitRun(str, e0, 4)
        c  == OptCnt(str, e0 + k2)
    IN  IF /\ LitAt(str, i, <<"A">>)
           /\ k1 >= 1 /\ CharAt(str, i + 1 + k1, ":")
           /\ k2 >= 1
        THEN MatchObj(str, i, e0 + k2 + c, <<str[i]>>, SubSeq(str, i + 1, i + k1),
                      SubSeq(str, e0, e0 + k2 - 1), <<>>, 0, 0, c, e0 + k2)
        ELSE NoMatch

\* S:\d{1,3}(/\d{1,2})?({\d+})? at position i
Rule6At(str, i) ==
    LET e0 == i + 2
        k2 == DigitRun(str, e0, 3)
        b  == OptBit(str, e0 + k2)
        c  == OptCnt(str, e0 + k2 + b)
    IN  IF /\ LitAt(str, i, <<"S">>) /\ CharAt(str, i + 1, ":")
           /\ k2 >= 1
        THEN MatchObj(str, i, e0 + k2 + b + c, <<str[i]>>, <<>>,
                      SubSeq(str, e0, e0 + k2 - 1), <<>>,
                      b - 1, e0 + k2 + 1, c, e0 + k2 + b)
        ELSE NoMatch

\* B\d{1,3}/\d{1,4}({\d+})? at position i
Rule7At(str, i) ==
    LET k1 == DigitRun(str, i + 1, 3)
        e0 == i + 2 + k1
        k2 == DigitRun(str, e0, 4)
        c  == OptCnt(str, e0 + k2)
    IN  IF /\ LitAt(str, i, <<"B">>)
           /\ k1 >= 1 /\ CharAt(str, i + 1 + k1, "/")
           /\ k2 >= 1
        THEN MatchObj(str, i, e0 + k2 + c, <<str[i]>>, SubSeq(str, i + 1, i + k1),
                      SubSeq(str, e0, e0 + k2 - 1), <<>>, 0, 0, c, e0 + k2)
        ELSE NoMatch

\* re.search: the match at the leftmost position that has one
Search1(str) ==
    LET I == {i \in 1..Len(str) : Rule1At(str, i).ok}
    IN  IF I = {} THEN NoMatch ELSE Rule1At(str, Min(I))

Search2(str) ==
    LET I == {i \in 1..Len(str) : Rule2At(str, i).ok}
    IN  IF I = {} THEN NoMatch ELSE Rule2At(str, Min(I))

Search3(str) ==
    LET I == {i \in 1..Len(str) : Rule3At(str, i).ok}
    IN  IF I = {} THEN NoMatch ELSE Rule3At(str, Min(I))

Search4(str) ==
    LET I == {i \in 1..Len(str) : Rule4At(str, i).ok}
    IN  IF I = {} THEN NoMatch ELSE Rule4At(str, Min(I))

Search5(str) ==
    LET I == {i \in 1..Len(str) : Rule5At(str, i).ok}
    IN  IF I = {} THEN NoMatch ELSE Rule5At(str, Min(I))

Search6(str) ==
    LET I == {i \in 1..Len(str) : Rule6At(str, i).ok}
    IN  IF I = {} THEN NoMatch ELSE Rule6At(str, Min(I))

Search7(str) ==
    LET I == {i \in 1..Len(str) : Rule7At(str, i).ok}
    IN  IF I = {} THEN NoMatch ELSE Rule7At(str, Min(I))

\* str.replace(tok, ''): every occurrence of tok removed, left to right
RECURSIVE RemoveAll(_, _)
RemoveAll(str, tok) ==
    IF Len(str) < Len(tok) \/ tok = <<>> THEN str
    ELSE IF SubSeq(str, 1, Len(tok)) = tok
         THEN RemoveAll(SubSeq(str, Len(tok) + 1, Len(str)), tok)
         ELSE <<str[1]>> \o RemoveAll(SubSeq(str, 2, Len(str)), tok)

\* tag_name = t.group(0).replace(_cnt, '') if _cnt else t.group(0)
TagName(m) == IF m.has_cnt THEN RemoveAll(m.g0, m.elem_cnt_token) ELSE m.g0

\* int(element_count) if element_count is not None else 1
ElementCount(m) == IF m.has_cnt THEN StrToInt(m.element_count) ELSE 1

\* PCCC_CT: the bit index of a named timer/counter field
PCCC_CT(name) ==
    CASE name = <<"P", "R", "E">> -> 1
      [] name = <<"A", "C", "C">> -> 2
      [] name = <<"E", "N">> -> 15
      [] name = <<"T", "T">> -> 14
      [] name = <<"D", "N">> -> 13
      [] name = <<"C", "U">> -> 15
      [] name = <<"C", "D">> -> 14
      [] name = <<"O", "V">> -> 12
      [] name = <<"U", "N">> -> 11
      [] name = <<"U", "A">> -> 10

ParseNone == [kind |-> "None"]
ParseRaise(exc) == [kind |-> "raise", exc |-> exc]
TagDict(ft, fn, en, pn, sub, af, cnt, tag) ==
    [kind |-> "tag", file_type |-> ft, file_number |-> fn, element_number |-> en,
     pos_number |-> pn, sub_element |-> sub, address_field |-> af,
     element_count |-> cnt, tag |-> tag]

InBounds(lo, str, hi) == lo <= StrToInt(str) /\ StrToInt(str) <= hi


(***************************************************************************)
(* parse_tag: the grammar rules in trial order.  A rule either returns a   *)
(* tag dict, raises, or falls through to the next rule.                    *)
(***************************************************************************)
Fall == [kind |-> "fall"]

\* rule 1: timer/counter named field
rule1_result(t) ==
    IF t.ok /\ InBounds(1, t.file_number, 255) /\ InBounds(0, t.element_number, 255)
        THEN TagDict(UpperStr(t.file_type), PyStr(t.file_number), PyStr(t.element_number),
                     PyAbsent, PyInt(PCCC_CT(UpperStr(t.sub_element))), 3, 1, t.g0)
        ELSE Fall

\* rule 2: L, F, B, N word files with optional bit and count
rule2_result(t) ==
    IF ~t.ok THEN Fall
        ELSE IF t.has_sub
        THEN IF /\ InBounds(1, t.file_number, 255)
                /\ InBounds(0, t.element_number, 255)
                /\ InBounds(0, t.sub_element, 15)
             THEN TagDict(UpperStr(t.file_type), PyStr(t.file_number),
                          PyStr(t.element_number), PyAbsent, PyStr(t.sub_element),
                          3, ElementCount(t), TagName(t))
             ELSE Fall
        ELSE IF /\ InBounds(1, t.file_number, 255)
                /\ InBounds(0, t.element_number, 255)
             THEN TagDict(UpperStr(t.file_type), PyStr(t.file_number),
                          PyStr(t.element_number), PyAbsent, PyNone,
                          2, ElementCount(t), TagName(t))
             ELSE Fall

\* rule 3: I/O.  The pattern has no file_number group, so the bit form's
\* int(t.group('file_number')) raises IndexError before any bound is tested.
rule3_result(t) ==
    IF ~t.ok THEN Fall
        ELSE IF t.has_sub
        THEN ParseRaise("IndexError")
        ELSE IF InBounds(0, t.element_number, 255)
             THEN TagDict(UpperStr(t.file_type), PyStr(<<"0">>),
                          PyStr(t.element_number), PyStr(t.position_number), PyAbsent,
                          2, ElementCount(t), TagName(t))
             ELSE Fall

\* rule 4: ST string files
rule4_result(t) ==
    IF t.ok /\ InBounds(1, t.file_number, 255) /\ InBounds(0, t.element_number, 255)
        THEN TagDict(UpperStr(t.file_type), PyStr(t.file_number),
                     PyInt(StrToInt(t.element_number)), PyAbsent, PyAbsent,
                     2, ElementCount(t), TagName(t))
        ELSE Fall

\* rule 5: A files
rule5_result(t) ==
    IF t.ok /\ InBounds(1, t.file_number, 255) /\ InBounds(0, t.element_number, 255)
        THEN TagDict(UpperStr(t.file_type), PyStr(t.file_number),
                     PyInt(StrToInt(t.element_number)), PyAbsent, PyAbsent,
                     2, ElementCount(t), TagName(t))
        ELSE Fall

\* rule 6: the S status file; the bit form keeps group 0 as the tag
rule6_result(t) ==
    IF ~t.ok THEN Fall
        ELSE IF t.has_sub
        THEN IF InBounds(0, t.element_number, 255) /\ InBounds(0, t.sub_element, 15)
             THEN TagDict(UpperStr(t.file_type), PyStr(<<"2">>),
                          PyStr(t.element_number), PyAbsent, PyStr(t.sub_element),
                          3, ElementCount(t), t.g0)
             ELSE Fall
        ELSE IF InBounds(0, t.element_number, 255)
             THEN TagDict(UpperStr(t.file_type), PyStr(<<"2">>),
                          PyStr(t.element_number), PyAbsent, PyAbsent,
                          2, ElementCount(t), TagName(t))
             ELSE Fall

\* rule 7: B file addressed by bit offset.  element_number = bit_position / 16
\* is Python's true division (a float); sub_element = bit_position -
\* (element_number * 16) is then the float 0.0 for every bit_position.
rule7_result(t) ==
    IF t.ok /\ InBounds(1, t.file_number, 255) /\ InBounds(0, t.element_number, 4095)
        THEN LET bit_position == StrToInt(t.element_number)
                 element_number == PyFloat16(bit_position)
                 sub_element == PyFloat16(bit_position * 16 - element_number.n * 16)
             IN  TagDict(UpperStr(t.file_type), PyStr(t.file_number),
                         element_number, PyAbsent, sub_element,
                         3, ElementCount(t), TagName(t))
        ELSE Fall

\* what each rule makes of the tag, t being the rule's re.search match
parse_rule1(tag) == rule1_result(Search1(tag))
parse_rule2(tag) == rule2_result(Search2(tag))
parse_rule3(tag) == rule3_result(Search3(tag))
parse_rule4(tag) == rule4_result(Search4(tag))
parse_rule5(tag) == rule5_result(Search5(tag))
parse_rule6(tag) == rule6_result(Search6(tag))
parse_rule7(tag) == rule7_result(Search7(tag))

\* a rule that returned or raised ends parse_tag; otherwise the next is tried
OrElse(r, next) == IF r.kind # "fall" THEN r ELSE next

parse_tag(tag) ==
    OrElse(parse_rule1(tag),
    OrElse(parse_rule2(tag),
    OrElse(parse_rule3(tag),
    OrElse(parse_rule4(tag),
    OrElse(parse_rule5(tag),
    OrElse(parse_rule6(tag),
    OrElse(parse_rule7(tag), ParseNone)))))))


(***************************************************************************)
(* Address strings the model parses: every grammar rule, with in-bounds    *)
(* and out-of-bounds numbers, numbers longer than the pattern captures,    *)
(* lower-case letters and text around the address.                         *)
(***************************************************************************)
FileNums == {0, 1, 3, 255, 256, 1000}
ElemNums == {0, 1, 100, 255, 256, 1000}
BitNums == {0, 4, 15, 16, 100}
BitOffsets == {0, 15, 16, 20, 4095, 4096, 10000}
PosNums == {0, 1}
Counts == {0, 1, 2, 10}

None_ == 0 - 1
BitOpts == {None_} \cup BitNums
CntOpts == {None_} \cup Counts

BitSuffix(b) == IF b = None_ THEN <<>> ELSE <<"/">> \o IntToStr(b)
CntSuffix(c) == IF c = None_ THEN <<>> ELSE <<"{">> \o IntToStr(c) \o <<"}">>

\* a case: the form of the address, the numbers it is written with
\* (None_: the part is left out) and its text
Case(form, f, e, q, b, c, text) ==
    [form |-> form, file |-> f, elem |-> e, pos |-> q, bit |-> b, cnt |-> c,
     text |-> text]

TimerCounterCases ==
    {Case("timer_counter", f, e, None_, None_, None_,
          <<l>> \o IntToStr(f) \o <<":">> \o IntToStr(e) \o <<".">> \o nm) :
        l \in {"T", "C", "t"}, f \in FileNums, e \in ElemNums,
        nm \in {<<"A", "C", "C">>, <<"P", "R", "E">>, <<"D", "N">>, <<"e", "n">>}}
WordCases ==
    {Case("word", f, e, None_, b, c,
          <<l>> \o IntToStr(f) \o <<":">> \o IntToStr(e) \o BitSuffix(b) \o CntSuffix(c)) :
        l \in {"N", "B", "F", "L", "n"}, f \in FileNums, e \in ElemNums,
        b \in BitOpts, c \in CntOpts}
IOCases ==
    {Case("io", None_, e, q, b, c,
          <<l>> \o <<":">> \o IntToStr(e) \o <<".">> \o IntToStr(q)
              \o BitSuffix(b) \o CntSuffix(c)) :
        l \in {"I", "O"}, e \in ElemNums, q \in PosNums,
        b \in BitOpts, c \in CntOpts}
StringCases ==
    {Case("string", f, e, None_, None_, c,
          <<"S", "T">> \o IntToStr(f) \o <<":">> \o IntToStr(e) \o CntSuffix(c)) :
        f \in FileNums, e \in ElemNums, c \in CntOpts}
AsciiCases ==
    {Case("ascii", f, e, None_, None_, c,
          <<"A">> \o IntToStr(f) \o <<":">> \o IntToStr(e) \o CntSuffix(c)) :
        f \in FileNums, e \in ElemNums, c \in CntOpts}
StatusCases ==
    {Case("status", None_, e, None_, b, c,
          <<"S", ":">> \o IntToStr(e) \o BitSuffix(b) \o CntSuffix(c)) :
        e \in ElemNums, b \in BitOpts, c \in CntOpts}
BitOffsetCases ==
    {Case("bit_offset", f, o, None_, None_, c,
          <<"B">> \o IntToStr(f) \o <<"/">> \o IntToStr(o) \o CntSuffix(c)) :
        f \in FileNums, o \in BitOffsets, c \in CntOpts}
\* strings no rule matches, and addresses inside other text
OddCases ==
    {Case("odd", None_, None_, None_, None_, None_, text) : text \in
        {<<>>, <<"X">>, <<"N", "7">>, <<"N", ":", "0">>, <<"7", ":", "0">>,
         <<"I", ":", "1", "2", "3">>, <<"T", "4", ":", "1", "2", "A", "C", "C">>,
         <<"X", "N", "7", ":", "0">>, <<"N", "7", ":", "0", "x">>,
         <<"N", "7", ":", "0", "{", "2">>, <<"N", "7", ":", "0", "{", "}">>,
         <<"S", "T", "9", ":", "0", "{", "3", "}">>,
         <<"T", "4", ":", "0">>, <<"T", "4", ":", "0", ".", "X", "X">>,
         <<"I", ":", "1">>, <<"O", ":", "1", "/", "0">>,
         <<"B", "3", "/", "2", "0", "/", "1">>}}

ParseCases ==
    TimerCounterCases \cup WordCases \cup IOCases \cup StringCases
        \cup AsciiCases \cup StatusCases \cup BitOffsetCases \cup OddCases
ParseInputs == {c.text : c \in ParseCases}

(***************************************************************************)
(* Pack / Unpack (pycomm3.bytes_) and the PCCC tables (pycomm3.const).     *)
(* A pack or unpack result is [ok, bytes] or [ok, value]; ok = FALSE is    *)
(* the packing error (wrong type, out-of-range value, too few bytes).      *)
(* Bytes are numbers 0..255.                                               *)
(***************************************************************************)
PackFail == [ok |-> FALSE, bytes |-> <<>>]
Packed(b) == [ok |-> TRUE, bytes |-> b]
IsPyInteger(v) == v.t \in {"int", "bool"}

\* Pack.usint: one unsigned byte
Pack_usint(v) ==
    IF IsPyInteger(v) /\ 0 <= v.n /\ v.n <= 255 THEN Packed(<<v.n>>) ELSE PackFail

\* Pack.uint: 16 bits unsigned, little endian
Pack_uint(v) ==
    IF IsPyInteger(v) /\ 0 <= v.n /\ v.n <= 65535
    THEN Packed(<<v.n % 256, v.n \div 256>>)
    ELSE PackFail

\* Pack.int: 16 bits signed, little endian (two's complement)
Pack_int(v) ==
    IF IsPyInteger(v) /\ -32768 <= v.n /\ v.n <= 32767
    THEN LET m == v.n % 65536 IN Packed(<<m % 256, m \div 256>>)
    ELSE PackFail

\* the four little-endian bytes of m, 0 <= m < 2^31
Bytes4(m) == <<m % 256, (m \div 256) % 256, (m \div 65536) % 256, m \div 16777216>>

\* Pack.dint: 32 bits signed, little endian (two's complement: the bytes of a
\* negative n are the complements of the bytes of -n - 1).  Every integer the
\* model holds is within 32 bits.
Pack_dint(v) ==
    IF ~IsPyInteger(v) THEN PackFail
    ELSE IF v.n >= 0 THEN Packed(Bytes4(v.n))
    ELSE Packed([k \in 1..4 |-> 255 - Bytes4(-v.n - 1)[k]])

\* the file types whose values are integers (F, A and ST values are not modelled)
IntFileTypes == {<<"N">>, <<"B">>, <<"T">>, <<"C">>, <<"S">>, <<"I">>, <<"O">>, <<"L">>}

\* PCCC_DATA_SIZE
PCCC_DATA_SIZE(file_type) ==
    CASE file_type \in {<<"N">>, <<"B">>, <<"S">>, <<"A">>, <<"I">>, <<"O">>} -> 2
      [] file_type \in {<<"L">>, <<"F">>} -> 4
      [] file_type \in {<<"T">>, <<"C">>} -> 6
      [] file_type = <<"S", "T">> -> 84

\* PCCC_DATA_TYPE: the file-type code byte
PCCC_DATA_TYPE(file_type) ==
    CASE file_type = <<"N">> -> 137
      [] file_type = <<"B">> -> 133
      [] file_type = <<"T">> -> 134
      [] file_type = <<"C">> -> 135
      [] file_type = <<"S">> -> 132
      [] file_type = <<"F">> -> 138
      [] file_type = <<"S", "T">> -> 141
      [] file_type = <<"A">> -> 142
      [] file_type = <<"O">> -> 139
      [] file_type = <<"I">> -> 140
      [] file_type = <<"L">> -> 145

\* Pack['pccc_<file type>']
pack_func(file_type, v) ==
    IF file_type = <<"L">> THEN Pack_dint(v) ELSE Pack_int(v)

UnpackFail == [ok |-> FALSE, value |-> PyNone]
Unpacked(v) == [ok |-> TRUE, value |-> v]

\* Unpack.int: the first two bytes as 16 bits signed, little endian
Unpack_int(data) ==
    IF Len(data) < 2 THEN UnpackFail
    ELSE LET m == data[1] + 256 * data[2]
         IN  Unpacked(PyInt(IF m >= 32768 THEN m - 65536 ELSE m))

\* Unpack.uint: the first two bytes as 16 bits unsigned, little endian
Unpack_uint(data) ==
    IF Len(data) < 2 THEN UnpackFail
    ELSE Unpacked(PyInt(data[1] + 256 * data[2]))

\* Unpack.dint: the first four bytes as 32 bits signed, little endian
Unpack_dint(data) ==
    IF Len(data) < 4 THEN UnpackFail
    ELSE IF data[4] < 128
    THEN Unpacked(PyInt(data[1] + 256 * data[2] + 65536 * data[3] + 16777216 * data[4]))
    ELSE Unpacked(PyInt(-1 - ((255 - data[1]) + 256 * (255 - data[2])
                              + 65536 * (255 - data[3]) + 16777216 * (255 - data[4]))))

\* Unpack['pccc_<file type>']
unpack_func(file_type, data) ==
    IF file_type = <<"L">> THEN Unpack_dint(data) ELSE Unpack_int(data)

\* data[a:b] of Python, 0-based, clipped to the buffer
Slice(data, a, b) ==
    LET lo == IF a > Len(data) THEN Len(data) ELSE a
        hi == IF b > Len(data) THEN Len(data) ELSE b
    IN  IF hi <= lo THEN <<>> ELSE SubSeq(data, lo + 1, hi)

RECURSIVE Pow2(_)
Pow2(k) == IF k = 0 THEN 1 ELSE 2 * Pow2(k - 1)

\* math.pow(2, k): always a float
math_pow2(k) == PyFloat16(Pow2(k) * 16)

PyList(items) == [t |-> "list", n |-> 0, s |-> items]
PyBytes(b) == [t |-> "bytes", n |-> 0, s |-> b]
IsPyNumber(v) == v.t \in {"int", "bool", "float"}

\* tag.get('sub_element') or 0: None, a missing key, 0 and 0.0 all give 0
SubElementOr0(tag) ==
    IF tag.sub_element.t \in {"None", "absent"} THEN PyInt(0)
    ELSE IF IsPyNumber(tag.sub_element) /\ tag.sub_element.n = 0 THEN PyInt(0)
    ELSE tag.sub_element

(***************************************************************************)
(* writeable_value                                                         *)
(***************************************************************************)
Writeable(b) == [kind |-> "bytes", bytes |-> b]
WriteRaise(exc) == [kind |-> "raise", exc |-> exc]

\* b''.join(pack_func(val) for val in value): fails when one element fails
RECURSIVE PackAll(_, _)
PackAll(file_type, items) ==
    IF items = <<>> THEN Packed(<<>>)
    ELSE LET h == pack_func(file_type, items[1])
             r == PackAll(file_type, Tail(items))
         IN  IF h.ok /\ r.ok THEN Packed(h.bytes \o r.bytes) ELSE PackFail

\* the bit branch of writeable_value (lines 604-607): mask and value half
BitMaskValue(bit_position, value) ==
    LET mask == Pack_uint(math_pow2(bit_position))
        half == IF value.n > 0 THEN Pack_uint(math_pow2(bit_position))
                ELSE Pack_uint(PyInt(0))
    IN  IF ~IsPyNumber(value) THEN PackFail
        ELSE IF mask.ok /\ half.ok THEN Packed(mask.bytes \o half.bytes)
        ELSE PackFail

\* faulty variant: a value longer than element_count is not cut
all_elements(value, element_count) == value

\* if len(value) > element_count: value = value[:element_count]
first_elements(value, element_count) ==
    IF element_count > 1 /\ value.t = "list" /\ Len(value.s) > element_count
    THEN PyList(SubSeq(value.s, 1, element_count))
    ELSE value

writeable_value(tag, value) ==
    IF value.t = "bytes" THEN Writeable(value.s)
    ELSE
    LET bit_field == tag.address_field = 3
        bit_position == IF bit_field THEN ToInt(SubElementOr0(tag)) ELSE 0
        element_count == IF tag.element_count = 0 THEN 1 ELSE tag.element_count
        val == first_elements(value, element_count)
        packed ==
            IF element_count > 1 THEN PackAll(tag.file_type, val.s)
            ELSE IF bit_field
            THEN IF tag.file_type \in {<<"T">>, <<"C">>} /\ bit_position \in {1, 2}
                 THEN LET w == pack_func(tag.file_type, val)
                      IN  IF w.ok THEN Packed(<<255, 255>> \o w.bytes) ELSE PackFail
                 ELSE BitMaskValue(bit_position, val)
            ELSE pack_func(tag.file_type, val)
    IN  IF element_count > 1 /\ value.t # "list" THEN WriteRaise("TypeError")
        ELSE IF element_count > 1 /\ Len(value.s) < element_count
        THEN WriteRaise("RequestError")
        ELSE IF packed.ok THEN Writeable(packed.bytes)
        ELSE WriteRaise("RequestError")

(***************************************************************************)
(* Replies                                                                 *)
(***************************************************************************)
SUCCESS == 0
SLC_REPLY_START == 61
StatusOffset == 58

\* PCCC_ERROR_CODE: the status codes that have a message of their own
KnownErrorCodes == {16, 32, 48, 64, 80, 96, 112, 128, 144, 240}
UnknownStatus == PyStr(<<"Unknown Status">>)
PCCC_ERROR_CODE(code) ==
    IF code \in KnownErrorCodes THEN PyStr(<<"PCCC_ERROR_CODE ">> \o IntToStr(code))
    ELSE UnknownStatus

\* faulty variant: the status byte is not looked at
request_status_ignored(data) == PyNone

\* request_status: None on success, else the message; a buffer without
\* byte 58 takes the except branch
request_status(data) ==
    IF Len(data) < StatusOffset + 1 THEN UnknownStatus
    ELSE IF data[StatusOffset + 1] = SUCCESS THEN PyNone
    ELSE PCCC_ERROR_CODE(data[StatusOffset + 1])

\* Tag(name, value, type, error)
Tag(name, value, type, error) ==
    [tag |-> name, value |-> value, type |-> type, error |-> error]

ParseFailed == PyStr(<<"Failed parsing tag read reply">>)

\* get_bit: (value & (1 << idx)) != 0; a negative value is in two's complement
get_bit(value, idx) ==
    IF value >= 0 THEN (value \div Pow2(idx)) % 2 = 1
    ELSE ((-value - 1) \div Pow2(idx)) % 2 = 0

\* [unpack_func(data[i: i + data_size]) for i in range(0, len(data), data_size)]
RECURSIVE UnpackList(_, _, _)
UnpackList(file_type, data, data_size) ==
    IF data = <<>> THEN [ok |-> TRUE, items |-> <<>>]
    ELSE LET h == unpack_func(file_type, Slice(data, 0, data_size))
             r == UnpackList(file_type, Slice(data, data_size, Len(data)), data_size)
         IN  IF h.ok /\ r.ok THEN [ok |-> TRUE, items |-> <<h.value>> \o r.items]
             ELSE [ok |-> FALSE, items |-> <<>>]

\* _parse_read_reply: [ok, tag]; ok = FALSE is the DataError
parse_read_reply(tag, data) ==
    LET bit_read == tag.address_field = 3
        bit_position == ToInt(SubElementOr0(tag))
        data_size == PCCC_DATA_SIZE(tag.file_type)
        at(o) == unpack_func(tag.file_type, Slice(data, o, o + data_size))
        word == at(0)
        vals == UnpackList(tag.file_type, data, data_size)
        good(v) == [ok |-> TRUE, tag |-> Tag(tag.tag, v, tag.file_type, PyNone)]
        bad == [ok |-> FALSE, tag |-> Tag(tag.tag, PyNone, tag.file_type, ParseFailed)]
    IN  IF bit_read
        THEN IF tag.file_type \in {<<"T">>, <<"C">>} /\ bit_position = 1
             THEN IF at(2).ok THEN good(at(2).value) ELSE bad
             ELSE IF tag.file_type \in {<<"T">>, <<"C">>} /\ bit_position = 2
             THEN IF at(4).ok THEN good(at(4).value) ELSE bad
             ELSE IF word.ok THEN good(PyBool(get_bit(word.value.n, bit_position)))
             ELSE bad
        ELSE IF ~vals.ok \/ vals.items = <<>> THEN bad
             ELSE IF Len(vals.items) > 1 THEN good(PyList(vals.items))
             ELSE good(vals.items[1])


(***************************************************************************)
(* Requests.  A request is kept as its fields, in the order they are       *)
(* joined after the constant preamble of _msg_start: command, status,      *)
(* transaction identifier, function and the bytes that follow.             *)
(***************************************************************************)
SLC_CMD_CODE == 15
SLC_FNC_READ == 162
SLC_FNC_WRITE == 171

Message(cmd, tns, fnc, body) ==
    [cmd |-> cmd, sts |-> 0, tns |-> tns, fnc |-> fnc, body |-> body]

\* self._sequence: the connection's counter is advanced and its new value read
NextSequence(seq) == IF seq < 65535 THEN seq + 1 ELSE 1

Raise(exc, took) == [kind |-> "raise", exc |-> exc, took |-> took]
Send(msg) == [kind |-> "send", msg |-> msg, took |-> 1]

\* the address bytes of a read or write request (lines 98-102, 161-165)
AddressBytes(t) ==
    LET size == Pack_usint(PyInt(PCCC_DATA_SIZE(t.file_type) * t.element_count))
        file == Pack_usint(PyInt(ToInt(t.file_number)))
        elem == Pack_usint(PyInt(ToInt(t.element_number)))
        sub  == Pack_usint(PyInt(IF t.pos_number.t = "absent" THEN 0
                                 ELSE ToInt(t.pos_number)))
    IN  IF size.ok /\ file.ok /\ elem.ok /\ sub.ok
        THEN Packed(size.bytes \o file.bytes \o <<PCCC_DATA_TYPE(t.file_type)>>
                        \o elem.bytes \o sub.bytes)
        ELSE PackFail

\* _read_tag up to request.send(), given the parsed tag: the request to
\* submit, or the exception.  took: how many times self._sequence was read
\* on the way.
read_tag_request(t, addr, seq) ==
    IF t.kind = "None" THEN Raise("RequestError", 0)
    ELSE IF t.kind = "raise" THEN Raise(t.exc, 0)
    ELSE IF ~addr.ok THEN Raise("struct.error", 1)
    ELSE Send(Message(SLC_CMD_CODE, Pack_uint(PyInt(NextSequence(seq))).bytes,
                      SLC_FNC_READ, addr.bytes))

tag_address(t) == IF t.kind = "tag" THEN AddressBytes(t) ELSE PackFail

read_request(tag, seq) == read_tag_request(parse_tag(tag), tag_address(parse_tag(tag)), seq)

\* _read_tag after request.send(): the Tag made of the reply
read_tag_reply(t, status, raw) ==
    IF status # PyNone THEN Tag(t.tag, PyNone, t.file_type, status)
    ELSE parse_read_reply(t, Slice(raw, SLC_REPLY_START, Len(raw))).tag

read_reply(tag, raw) == read_tag_reply(parse_tag(tag), request_status(raw), raw)

\* _write_tag up to request.send(), given the parsed tag
write_tag_request(t, addr, data, seq) ==
    IF t.kind = "None" THEN Raise("RequestError", 0)
    ELSE IF t.kind = "raise" THEN Raise(t.exc, 0)
    ELSE IF ~addr.ok THEN Raise("struct.error", 1)
    ELSE IF data.kind = "raise" THEN Raise(data.exc, 1)
    ELSE Send(Message(SLC_CMD_CODE, Pack_uint(PyInt(NextSequence(seq))).bytes,
                      SLC_FNC_WRITE, addr.bytes \o data.bytes))

tag_data(t, value) == IF t.kind = "tag" THEN writeable_value(t, value) ELSE WriteRaise("RequestError")

write_request(tag, value, seq) ==
    write_tag_request(parse_tag(tag), tag_address(parse_tag(tag)),
                      tag_data(parse_tag(tag), value), seq)

\* _write_tag after request.send()
write_tag_reply(t, value, status) ==
    IF status # PyNone THEN Tag(t.tag, PyNone, t.file_type, status)
    ELSE Tag(t.tag, value, t.file_type, PyNone)

write_reply(tag, value, raw) == write_tag_reply(parse_tag(tag), value, request_status(raw))

\* faulty variant: the results are returned as a list whatever their number
return_results_list(results) == [kind |-> "list", value |-> results]

\* read / write: results[0] if len(results) == 1 else results
Returned(kind, value) == [kind |-> kind, value |-> value]
return_results(results) ==
    IF Len(results) = 1 THEN Returned("tag", results[1]) ELSE Returned("list", results)

\* the reply buffer of a controller: status at byte 58, payload from byte 61
RawReply(status, payload) == [k \in 1..58 |-> 0] \o <<status, 0, 0>> \o payload

(***************************************************************************)
(* File-directory discovery                                                *)
(***************************************************************************)
\* get_processor_type's request: CMD 06, FNC 03
processor_type_request(seq) ==
    Message(6, Pack_uint(PyInt(NextSequence(seq))).bytes, 3, <<>>)

\* the characters of the bytes 32..57; the replies of the model hold no other
\* bytes below 128
AsciiChars == <<" ", "!", "\"", "#", "$", "%", "&", "'", "(", ")", "*", "+", ",",
                "-", ".", "/", "0", "1", "2", "3", "4", "5", "6", "7", "8", "9">>
AsciiFirst == 32
AsciiByte(c) == (CHOOSE k \in 1..Len(AsciiChars) : AsciiChars[k] = c) + AsciiFirst - 1
Encode(str) == [k \in 1..Len(str) |-> AsciiByte(str[k])]

\* bytes.decode('utf-8'): fails on a byte that is not the start of a character
CanDecode(data) == \A k \in 1..Len(data) : data[k] < 128
Decode(data) == [k \in 1..Len(data) |-> AsciiChars[data[k] - AsciiFirst + 1]]

\* str.strip() of spaces
RECURSIVE LStrip(_)
LStrip(str) ==
    IF str # <<>> /\ str[1] = " " THEN LStrip(Tail(str)) ELSE str
RECURSIVE RStrip(_)
RStrip(str) ==
    IF str # <<>> /\ str[Len(str)] = " " THEN RStrip(SubSeq(str, 1, Len(str) - 1))
    ELSE str
Strip(str) == RStrip(LStrip(str))

\* get_processor_type after request.send(): the type text, or None when the
\* response is not valid or its text does not decode
processor_type(response) ==
    LET text == Slice(Slice(response.raw, SLC_REPLY_START, Len(response.raw)), 5, 16)
    IN  IF ~response.valid THEN PyNone
        ELSE IF ~CanDecode(text) THEN PyNone
        ELSE PyStr(Strip(Decode(text)))

\* _get_file_and_element_for_plc_type: <<file_type, element>>
get_file_and_element_for_plc_type(plc_type) ==
    IF plc_type = <<"5", "/", "0", "2">> THEN <<0, 35>> ELSE <<1, 35>>

\* _get_file_position_row_size_for_plc_type: <<file_pos, row_size>>
get_file_position_row_size_for_plc_type(plc_type) ==
    LET prefix == SubSeq(plc_type, 1, IF Len(plc_type) < 4 THEN Len(plc_type) ELSE 4)
    IN  IF prefix \in {<<"5", "/", "0", "2">>, <<"1", "7", "6", "1">>} THEN <<93, 8>>
        ELSE IF prefix \in {<<"1", "7", "6", "3">>, <<"1", "7", "6", "2">>,
                            <<"1", "7", "6", "4">>} THEN <<103, 10>>
        ELSE <<79, 10>>

\* _get_file_directory_size's request
directory_size_request(file_type, element, seq) ==
    Message(SLC_CMD_CODE, Pack_uint(PyInt(NextSequence(seq))).bytes, 161,
            <<4, 0, file_type, element>>)

\* faulty variant: a size query that failed counts as an empty File 0
directory_size_or_zero(raw) ==
    IF request_status(raw) # PyNone THEN PyInt(0)
    ELSE IF Unpack_uint(Slice(raw, SLC_REPLY_START, Len(raw))).ok
         THEN Unpack_uint(Slice(raw, SLC_REPLY_START, Len(raw))).value
         ELSE PyInt(0)

\* _get_file_directory_size after request.send(): the size, or None
directory_size(raw) ==
    LET size == Unpack_uint(Slice(raw, SLC_REPLY_START, Len(raw)))
    IN  IF request_status(raw) # PyNone THEN PyNone
        ELSE IF size.ok THEN size.value
        ELSE PyNone

\* size = 0x50 if bytes_remaining > 0x50 else bytes_remaining
ChunkCap == 80
chunk_size(bytes_remaining) ==
    IF bytes_remaining > ChunkCap THEN ChunkCap ELSE bytes_remaining

\* the offset of a chunk request: one byte after 0x00, or two after 0xFF
offset_bytes(offset) ==
    IF offset < 256 THEN <<0>> \o Pack_usint(PyInt(offset)).bytes
    ELSE <<255>> \o Pack_uint(PyInt(offset)).bytes

\* the request of one iteration of _read_whole_file_directory
chunk_request(file_type, offset, file0_size, have, seq) ==
    Message(SLC_CMD_CODE, Pack_uint(PyInt(NextSequence(seq))).bytes, SLC_FNC_READ,
            Pack_usint(PyInt(chunk_size(file0_size - have))).bytes
                \o <<0, file_type>> \o offset_bytes(offset))

\* faulty variant: the offset advances by bytes
advance_offset_bytes(offset, data) == offset + Len(data)

\* offset += len(data) // 2
advance_offset(offset, data) == offset + (Len(data) \div 2)

\* PCCC_DATA_TYPE read from code to file type (<<>>: no such code)
FileTypeOfCode(code) ==
    LET T == {ft \in IntFileTypes \cup {<<"F">>, <<"A">>, <<"S", "T">>} :
                 PCCC_DATA_TYPE(ft) = code}
    IN  IF T = {} THEN <<>> ELSE CHOOSE ft \in T : TRUE

ReservedCode == 129

\* the rows of _parse_file0 from file_pos on: [ok, files]; ok = FALSE when a
\* row's length does not unpack
RECURSIVE file0_rows(_, _, _, _)
file0_rows(data, file_pos, row_size, file_num) ==
    IF file_pos >= Len(data) THEN [ok |-> TRUE, files |-> <<>>]
    ELSE LET file_code == data[file_pos + 1]
             file_type == FileTypeOfCode(file_code)
             file_size == Unpack_uint(Slice(data, file_pos + 1, Len(data)))
             counted == file_type # <<>> \/ file_code = ReservedCode
             rest == file0_rows(data, file_pos + row_size, row_size,
                                IF counted THEN file_num + 1 ELSE file_num)
         IN  IF file_type = <<>> THEN rest
             ELSE IF ~file_size.ok \/ ~rest.ok THEN [ok |-> FALSE, files |-> <<>>]
             ELSE [ok |-> TRUE,
                   files |-> <<[name |-> file_type \o IntToStr(file_num),
                                elements |-> file_size.value.n
                                                \div PCCC_DATA_SIZE(file_type),
                                length |-> file_size.value.n]>> \o rest.files]

\* _parse_file0: the mapping (as its items in insertion order), or the
\* exception of data[52] / of a row that does not unpack
parse_file0(plc_type, data) ==
    LET pr == get_file_position_row_size_for_plc_type(plc_type)
        rows == file0_rows(data, pr[1], pr[2], 0)
    IN  IF Len(data) < 53 THEN Raise("IndexError", 0)
        ELSE IF ~rows.ok THEN Raise("struct.error", 0)
        ELSE Returned("mapping", rows.files)

(***************************************************************************)
(* State                                                                   *)
(***************************************************************************)
VARIABLES
    given,      \* parse_tag's input: the case whose text is parsed
    parsed,     \* parse_tag's result
    wtag,       \* writeable_value's tag dict
    wvalue,     \* writeable_value's value
    wresult,    \* writeable_value's result
    pc,         \* where the driver's call stands: idle, waiting for a reply
                \* (read_wait, write_wait, type_wait, size_wait, chunk_wait),
                \* returned or raised
    op,         \* the call: read, write, get_processor_type, get_file_directory
    args,       \* the call's arguments
    idx,        \* read/write: the position of the address being handled
    results,    \* read/write: the Tags made so far
    sent,       \* the requests submitted to the transport during the call
    received,   \* the responses received during the call
    ret,        \* what the call returned or raised
    sequence,   \* the connection's transaction sequence counter
    taken,      \* how many times self._sequence was read
    submitted,  \* how many requests the connection submitted to the transport
    plc_type,   \* get_file_directory: the processor type
    file0_size, \* get_file_directory: the size of File 0
    file0_data, \* _read_whole_file_directory: the bytes read so far
    offset      \* _read_whole_file_directory: the offset of the next chunk

Pending == [kind |-> "pending"]

ParseVars == <<given, parsed>>
PackVars == <<wtag, wvalue, wresult>>
CallVars == <<pc, op, args, idx, results, sent, received, ret, sequence, taken,
              submitted>>
DirVars == <<plc_type, file0_size, file0_data, offset>>
vars == <<given, parsed, wtag, wvalue, wresult, pc, op, args, idx, results, sent,
          received, ret, sequence, taken, submitted, plc_type, file0_size,
          file0_data, offset>>

NoCase == Case("none", None_, None_, None_, None_, None_, <<>>)
ParseIdle == given = NoCase /\ parsed = Pending
PackIdle == wtag = ParseNone /\ wvalue = PyNone /\ wresult = Pending
DirIdle ==
    /\ plc_type = PyNone /\ file0_size = PyNone /\ file0_data = <<>> /\ offset = 0
\* a connection on which no call was made yet
DriverIdle ==
    /\ pc = "idle" /\ op = "none" /\ args = <<>> /\ idx = 0 /\ results = <<>>
    /\ sent = <<>> /\ received = <<>> /\ ret = Pending
    /\ sequence = 0 /\ taken = 0 /\ submitted = 0
    /\ DirIdle

(***************************************************************************)
(* parse_tag applied to every case                                         *)
(***************************************************************************)
InitParse ==
    /\ given \in ParseCases
    /\ parsed = Pending
    /\ PackIdle /\ DriverIdle

ParseTag ==
    /\ parsed = Pending
    /\ given # NoCase
    /\ parsed' = parse_tag(given.text)
    /\ UNCHANGED <<given, PackVars, CallVars, DirVars>>

NextParse == ParseTag

SpecParse == InitParse /\ [][NextParse]_vars

(***************************************************************************)
(* writeable_value applied to the tag dicts of some addresses and to       *)
(* values of every kind                                                    *)
(***************************************************************************)
PackAddrs ==
    {<<"N", "7", ":", "0">>, <<"N", "7", ":", "0", "/", "0">>,
     <<"N", "7", ":", "0", "/", "3">>, <<"N", "7", ":", "1", "/", "1", "5">>,
     <<"B", "3", ":", "1", "/", "4">>, <<"B", "3", "/", "2", "0">>,
     <<"S", ":", "1", "/", "5">>,
     <<"T", "4", ":", "0", ".", "A", "C", "C">>, <<"T", "4", ":", "0", ".", "P", "R", "E">>,
     <<"T", "4", ":", "0", ".", "D", "N">>, <<"C", "5", ":", "0", ".", "C", "U">>,
     <<"L", "9", ":", "0">>,
     <<"N", "7", ":", "0", "{", "0", "}">>, <<"N", "7", ":", "0", "{", "1", "}">>,
     <<"N", "7", ":", "0", "{", "2", "}">>, <<"N", "7", ":", "0", "{", "3", "}">>,
     <<"N", "7", ":", "0", "/", "3", "{", "2", "}">>}

Scalars == {PyInt(0), PyInt(1), PyInt(5), PyInt(-1), PyInt(32767), PyInt(40000),
            PyBool(TRUE), PyBool(FALSE), PyNone}
Elements == {PyInt(1), PyInt(-2), PyInt(40000)}
MaxValues == 3
Lists == UNION {[1..k -> Elements] : k \in 0..MaxValues}
PackValues == Scalars \cup {PyList(l) : l \in Lists} \cup {PyBytes(<<1, 2>>)}

InitPack ==
    /\ wtag \in {parse_tag(a) : a \in PackAddrs}
    /\ wvalue \in PackValues
    /\ wresult = Pending
    /\ ParseIdle /\ DriverIdle

WriteableValue ==
    /\ wresult = Pending
    /\ wtag # ParseNone
    /\ wresult' = writeable_value(wtag, wvalue)
    /\ UNCHANGED <<wtag, wvalue, ParseVars, CallVars, DirVars>>

NextPack == WriteableValue

SpecPack == InitPack /\ [][NextPack]_vars

(***************************************************************************)
(* read and write                                                          *)
(***************************************************************************)
MaxAddrs == 2

ReadAddrs ==
    {<<"N", "7", ":", "0">>, <<"N", "7", ":", "0", "{", "2", "}">>,
     <<"N", "7", ":", "1", "/", "3">>, <<"T", "4", ":", "0", ".", "A", "C", "C">>,
     <<"X", "9">>, <<"N", "7", ":", "0", "{", "2", "0", "0", "}">>}
ReadArgs == UNION {[1..n -> ReadAddrs] : n \in 0..MaxAddrs}

Pair(tag, value) == [tag |-> tag, value |-> value]
WritePairs ==
    {Pair(<<"N", "7", ":", "0">>, PyInt(5)),
     Pair(<<"N", "7", ":", "0">>, PyInt(40000)),
     Pair(<<"N", "7", ":", "1", "/", "3">>, PyBool(TRUE)),
     Pair(<<"X", "9">>, PyInt(1)),
     Pair(<<"N", "7", ":", "0", "{", "2", "}">>, PyInt(5)),
     Pair(<<"N", "7", ":", "0", "{", "2", "}">>, PyList(<<PyInt(1)>>)),
     Pair(<<"N", "7", ":", "0", "{", "2", "}">>, PyList(<<PyInt(1), PyInt(-2)>>)),
     Pair(<<"N", "7", ":", "0", "{", "2", "}">>, PyList(<<PyInt(1), PyInt(40000)>>)),
     Pair(<<"N", "7", ":", "0", "{", "2", "}">>,
          PyList(<<PyInt(1), PyInt(-2), PyInt(40000)>>)),
     Pair(<<"N", "7", ":", "0", "{", "2", "}">>, PyBytes(<<1, 2>>)),
     Pair(<<"N", "7", ":", "0", "{", "2", "0", "0", "}">>, PyList(<<PyInt(1)>>))}
WriteArgs == UNION {[1..n -> WritePairs] : n \in 0..MaxAddrs}

Response(valid, raw) == [valid |-> valid, raw |-> raw]
\* a buffer too short to hold a status byte
ShortRaw == <<0, 0, 0>>
\* what the controller may answer to a read ...
ReadReplies ==
    {Response(TRUE, RawReply(0, payload)) :
        payload \in {<<>>, <<8, 0>>, <<1, 0, 2, 0, 3, 0>>}}
    \cup {Response(TRUE, RawReply(16, <<>>)), Response(TRUE, ShortRaw)}
\* ... and to a write
WriteReplies ==
    {Response(TRUE, RawReply(0, <<>>)), Response(TRUE, RawReply(16, <<>>)),
     Response(TRUE, RawReply(1, <<>>))}

\* faulty variant: the request is submitted before its errors are detected
TurnSendFirst(r, log, wait) ==
    IF r.kind = "raise"
    THEN /\ pc' = "raised" /\ ret' = r
         /\ sent' = Append(log, Message(SLC_CMD_CODE, <<0, 0>>, 0, <<>>))
         /\ sequence' = NextSequence(sequence)
         /\ taken' = taken + 1
         /\ submitted' = submitted + 1
    ELSE /\ pc' = wait /\ ret' = ret
         /\ sent' = Append(log, r.msg)
         /\ sequence' = NextSequence(sequence)
         /\ taken' = taken + 1
         /\ submitted' = submitted + 1

\* one turn of the list comprehension of read or write, r being what the
\* turn's _read_tag or _write_tag does up to request.send(): the call raises
\* or waits for the reply
Turn(r, log, wait) ==
    IF r.kind = "raise"
    THEN /\ pc' = "raised" /\ ret' = r
         /\ sent' = log
         /\ sequence' = (IF r.took = 1 THEN NextSequence(sequence) ELSE sequence)
         /\ taken' = taken + r.took
         /\ submitted' = submitted
    ELSE /\ pc' = wait /\ ret' = ret
         /\ sent' = Append(log, r.msg)
         /\ sequence' = NextSequence(sequence)
         /\ taken' = taken + 1
         /\ submitted' = submitted + 1

\* the list comprehension is exhausted: the call returns
Return(res, log) ==
    /\ pc' = "returned" /\ ret' = return_results(res)
    /\ sent' = log
    /\ UNCHANGED <<sequence, taken, submitted>>

\* the list comprehension of read from position i on, up to the next
\* request.send() or the end of the call
ReadFrom(a, i, res, log) ==
    IF i > Len(a) THEN Return(res, log)
    ELSE Turn(read_request(a[i], sequence), log, "read_wait")

\* read(*addresses)
Read ==
    /\ pc = "idle"
    /\ \E a \in ReadArgs :
        /\ op' = "read" /\ args' = a /\ idx' = 1 /\ results' = <<>>
        /\ ReadFrom(a, 1, <<>>, <<>>)
    /\ UNCHANGED <<received, ParseVars, PackVars, DirVars>>

\* the response to the request of _read_tag arrives
ReadReply ==
    /\ pc = "read_wait"
    /\ \E rp \in ReadReplies :
        /\ received' = Append(received, rp)
        /\ results' = Append(results, read_reply(args[idx], rp.raw))
        /\ idx' = idx + 1
        /\ ReadFrom(args, idx + 1, results', sent)
    /\ UNCHANGED <<op, args, ParseVars, PackVars, DirVars>>

\* the list comprehension of write from position i on
WriteFrom(a, i, res, log) ==
    IF i > Len(a) THEN Return(res, log)
    ELSE Turn(write_request(a[i].tag, a[i].value, sequence), log, "write_wait")

\* write(*address_values)
Write ==
    /\ pc = "idle"
    /\ \E a \in WriteArgs :
        /\ op' = "write" /\ args' = a /\ idx' = 1 /\ results' = <<>>
        /\ WriteFrom(a, 1, <<>>, <<>>)
    /\ UNCHANGED <<received, ParseVars, PackVars, DirVars>>

\* the response to the request of _write_tag arrives
WriteReply ==
    /\ pc = "write_wait"
    /\ \E rp \in WriteReplies :
        /\ received' = Append(received, rp)
        /\ results' = Append(results, write_reply(args[idx].tag, args[idx].value, rp.raw))
        /\ idx' = idx + 1
        /\ WriteFrom(args, idx + 1, results', sent)
    /\ UNCHANGED <<op, args, ParseVars, PackVars, DirVars>>

Init == ParseIdle /\ PackIdle /\ DriverIdle

Next == Read \/ ReadReply \/ Write \/ WriteReply

Spec == Init /\ [][Next]_vars

(***************************************************************************)
(* get_processor_type and get_file_directory                               *)
(***************************************************************************)
MaxChunks == 4

\* the reply to the diagnostic query: five bytes, then the type in 11 characters
TypeText(str) == RawReply(0, <<0, 0, 0, 0, 0>> \o Encode(str))
TypeReplies ==
    {Response(TRUE, TypeText(<<"5", "/", "0", "2", " ", " ", " ", " ", " ", " ", " ">>)),
     Response(TRUE, TypeText(<<" ", "1", "7", "6", "3", "-", "1", "6", " ", " ", " ">>)),
     Response(TRUE, TypeText(<<"1", "7", "4", "7", "-", "5", "5", "3", " ", " ", " ">>)),
     Response(TRUE, RawReply(0, <<0, 0, 0, 0, 0, 255, 254>>)),
     Response(TRUE, RawReply(0, <<>>)),
     Response(FALSE, RawReply(16, <<>>))}

SizeReplies ==
    {Response(TRUE, RawReply(0, <<130, 0>>)), Response(TRUE, RawReply(0, <<4, 0>>)),
     Response(TRUE, RawReply(0, <<0, 0>>)), Response(TRUE, RawReply(0, <<7>>)),
     Response(TRUE, RawReply(16, <<>>))}

\* the controller's File 0: data[52] files, and rows where the processor
\* types of the model look for them
File0Image ==
    [k \in 1..130 |->
        CASE k - 1 = 52 -> 3
          [] k - 1 = 93 -> 139  [] k - 1 = 94 -> 2
          [] k - 1 = 101 -> 140 [] k - 1 = 102 -> 2
          [] k - 1 = 109 -> 132 [] k - 1 = 110 -> 30
          [] k - 1 = 117 -> ReservedCode
          [] k - 1 = 125 -> 137 [] k - 1 = 126 -> 20
          [] k - 1 = 129 -> 133
          [] OTHER -> 0]

\* the size and the offset a chunk request asks for
RequestedSize(msg) == msg.body[1]
RequestedOffset(msg) ==
    IF msg.body[4] = 0 THEN msg.body[5] ELSE msg.body[5] + 256 * msg.body[6]

\* what the controller may answer to a chunk request: the bytes asked for,
\* only two of them, none, or an error status
ChunkReplies(msg) ==
    {Response(TRUE, RawReply(0, Slice(File0Image, 2 * RequestedOffset(msg),
                                      2 * RequestedOffset(msg) + len))) :
        len \in {RequestedSize(msg), 2, 0}}
    \cup {Response(TRUE, RawReply(16, <<>>))}

\* a request is submitted and the call waits for its reply
SendNext(msg, wait) ==
    /\ pc' = wait /\ ret' = ret
    /\ sent' = Append(sent, msg)
    /\ sequence' = NextSequence(sequence)
    /\ taken' = taken + 1
    /\ submitted' = submitted + 1

\* the call ends: it returns r or raises it
Finish(r) ==
    /\ pc' = (IF r.kind = "raise" THEN "raised" ELSE "returned")
    /\ ret' = r
    /\ UNCHANGED <<sent, sequence, taken, submitted>>

\* get_processor_type()
GetProcessorType ==
    /\ pc = "idle"
    /\ op' = "get_processor_type"
    /\ SendNext(processor_type_request(sequence), "type_wait")
    /\ UNCHANGED <<args, idx, results, received, ParseVars, PackVars, DirVars>>

\* get_file_directory(), up to the request of get_processor_type
GetFileDirectory ==
    /\ pc = "idle"
    /\ op' = "get_file_directory"
    /\ SendNext(processor_type_request(sequence), "type_wait")
    /\ UNCHANGED <<args, idx, results, received, ParseVars, PackVars, DirVars>>

\* get_file_directory after get_processor_type returned typ
AfterProcessorType(typ) ==
    IF typ = PyNone THEN Finish(Raise("DataError", 0))
    ELSE SendNext(directory_size_request(get_file_and_element_for_plc_type(typ.s)[1],
                                         get_file_and_element_for_plc_type(typ.s)[2],
                                         sequence), "size_wait")

\* the response to the diagnostic query arrives
ProcessorTypeReply ==
    /\ pc = "type_wait"
    /\ \E rp \in TypeReplies :
        /\ received' = Append(received, rp)
        /\ plc_type' = processor_type(rp)
        /\ IF op = "get_processor_type"
           THEN Finish(Returned("type", processor_type(rp)))
           ELSE AfterProcessorType(processor_type(rp))
    /\ UNCHANGED <<op, args, idx, results, file0_size, file0_data, offset,
                   ParseVars, PackVars>>

\* the while loop of _read_whole_file_directory with data read so far: the
\* next chunk is requested, or the data is complete and _parse_file0 ends
\* the call
ReadWhole(typ, data, off, size) ==
    /\ file0_data' = data /\ offset' = off
    /\ IF Len(data) < size
       THEN /\ Len(sent) - 2 < MaxChunks
            /\ SendNext(chunk_request(get_file_and_element_for_plc_type(typ)[1],
                                      off, size, Len(data), sequence), "chunk_wait")
       ELSE Finish(parse_file0(typ, data))

\* get_file_directory after _get_file_directory_size returned size
AfterSize(size) ==
    IF size = PyNone
    THEN Finish(Raise("DataError", 0)) /\ UNCHANGED <<file0_data, offset>>
    ELSE ReadWhole(plc_type.s, <<>>, 0, size.n)

\* the response to the size query arrives
SizeReply ==
    /\ pc = "size_wait"
    /\ \E rp \in SizeReplies :
        /\ received' = Append(received, rp)
        /\ file0_size' = directory_size(rp.raw)
        /\ AfterSize(directory_size(rp.raw))
    /\ UNCHANGED <<op, args, idx, results, plc_type, ParseVars, PackVars>>

\* _read_whole_file_directory after request.send()
AfterChunk(status, data) ==
    IF status = PyNone
    THEN ReadWhole(plc_type.s, file0_data \o data, advance_offset(offset, data),
                   file0_size.n)
    ELSE Finish(Raise("DataError", 0)) /\ UNCHANGED <<file0_data, offset>>

\* the response to a chunk request arrives
ChunkReply ==
    /\ pc = "chunk_wait"
    /\ \E rp \in ChunkReplies(sent[Len(sent)]) :
        /\ received' = Append(received, rp)
        /\ AfterChunk(request_status(rp.raw), Slice(rp.raw, SLC_REPLY_START, Len(rp.raw)))
    /\ UNCHANGED <<op, args, idx, results, plc_type, file0_size, ParseVars, PackVars>>

NextDir ==
    GetProcessorType \/ GetFileDirectory \/ ProcessorTypeReply \/ SizeReply \/ ChunkReply

SpecDir == Init /\ [][NextDir]_vars

(***************************************************************************)
(* Several calls, one after the other, on one connection                   *)
(***************************************************************************)
MaxTaken == 2

\* the caller makes another call once the previous one returned or raised:
\* the locals of the call are gone, self._sequence stays with the driver.
\* (Bounded: no further call once the counter was read MaxTaken times.)
NextCall ==
    /\ pc \in {"returned", "raised"}
    /\ taken < MaxTaken
    /\ pc' = "idle" /\ op' = "none" /\ args' = <<>> /\ idx' = 0 /\ results' = <<>>
    /\ sent' = <<>> /\ received' = <<>> /\ ret' = Pending
    /\ plc_type' = PyNone /\ file0_size' = PyNone /\ file0_data' = <<>> /\ offset' = 0
    /\ UNCHANGED <<sequence, taken, submitted, ParseVars, PackVars>>

NextConn ==
    \/ Read \/ ReadReply \/ Write \/ WriteReply
    \/ GetProcessorType \/ GetFileDirectory \/ ProcessorTypeReply \/ SizeReply
    \/ ChunkReply
    \/ NextCall

SpecConn == Init /\ [][NextConn]_vars

(***************************************************************************)
(* Properties of parse_tag (checked under SpecParse)                       *)
(***************************************************************************)
NumberedForms == {"timer_counter", "word", "string", "ascii", "bit_offset"}

\* the address is written with a number outside the bounds of its rule
OutOfBounds(c) ==
    \/ c.form \in NumberedForms /\ (c.file < 1 \/ c.file > 255)
    \/ c.form \in {"timer_counter", "word", "io", "string", "ascii", "status"}
          /\ c.elem > 255
    \/ c.bit # None_ /\ c.bit > 15
    \/ c.form = "bit_offset" /\ c.elem > 4095

\* the numeric value of a Python number is the integer k
NumberIs(v, k) ==
    /\ IsPyNumber(v)
    /\ IF v.t = "float" THEN v.n = 16 * k ELSE v.n = k

\* C4: an address written with a file number, element number, bit number or
\* bit offset outside the bounds of its rule never parses to an address, also
\* when the number has more digits than the pattern captures.  (Stated for the
\* "never an address" half: an exception raised by parse_tag is not counted.)
C4_OutOfBoundsNeverAnAddress ==
    parsed # Pending /\ OutOfBounds(given) => parsed.kind # "tag"

\* C5: B<file>/<bitoffset> with file in 1..255 and bitoffset in 0..4095 parses
\* to element_number = bitoffset div 16, sub_element = bitoffset mod 16 and
\* address_field = 3.  (Stated on the numeric values, whatever their type.)
C5_BitOffsetDivMod ==
    /\ parsed # Pending
    /\ given.form = "bit_offset"
    /\ given.file \in 1..255 /\ given.elem \in 0..4095
    => /\ parsed.kind = "tag"
       /\ NumberIs(parsed.element_number, given.elem \div 16)
       /\ NumberIs(SubElementOr0(parsed), given.elem % 16)
       /\ parsed.address_field = 3

\* C6: an I/O address in bit form with elem in 0..255 and bit in 0..15 parses
\* to an address with file_number 0, element_number elem, pos_number pos,
\* sub_element bit and address_field 3.
C6_IOBitForm ==
    /\ parsed # Pending
    /\ given.form = "io" /\ given.bit # None_
    /\ given.elem \in 0..255 /\ given.bit \in 0..15
    => /\ parsed.kind = "tag"
       /\ ToInt(parsed.file_number) = 0
       /\ ToInt(parsed.element_number) = given.elem
       /\ ToInt(parsed.pos_number) = given.pos
       /\ ToInt(parsed.sub_element) = given.bit
       /\ parsed.address_field = 3

\* C11: every address produced by parse_tag has element_count >= 1; the
\* count is 1 when the address is written without a brace suffix, and an
\* address written with the suffix {0} produces no address.
C11_ElementCountAtLeastOne ==
    /\ parsed # Pending /\ parsed.kind = "tag" => parsed.element_count >= 1
    /\ parsed # Pending /\ parsed.kind = "tag" /\ given.form # "odd" /\ given.cnt = None_
          => parsed.element_count = 1
    /\ parsed # Pending /\ given.cnt = 0 => parsed.kind # "tag"

\* the fields of an address that name the data it points at
SameAddress(a, b) ==
    /\ a.tag = b.tag
    /\ a.file_type = b.file_type
    /\ a.file_number = b.file_number
    /\ a.element_number = b.element_number
    /\ a.sub_element = b.sub_element
    /\ a.address_field = b.address_field

HasBrace(str) == \E k \in 1..Len(str) : str[k] \in {"{", "}"}

\* C12: for every address parse_tag accepts, the produced tag carries no
\* brace count suffix, and parsing that tag again succeeds and gives the same
\* tag, file_type, file_number, element_number, sub_element and address_field.
C12_TagIsFixedPoint ==
    parsed # Pending /\ parsed.kind = "tag" =>
        /\ ~HasBrace(parsed.tag)
        /\ parse_tag(parsed.tag).kind = "tag"
        /\ SameAddress(parse_tag(parsed.tag), parsed)

(***************************************************************************)
(* Properties of writeable_value (checked under SpecPack)                  *)
(***************************************************************************)
\* a bit write that is not a timer/counter PRE/ACC write
IsBitWrite(tag) ==
    /\ tag.kind = "tag"
    /\ tag.address_field = 3
    /\ tag.element_count = 1
    /\ ~(tag.file_type \in {<<"T">>, <<"C">>} /\ ToInt(SubElementOr0(tag)) \in {1, 2})

LittleEndian16(k) == <<k % 256, k \div 256>>

\* C7: a bit write at bit k with the value True, False, 1 or 0 gives 4 bytes:
\* the mask 2^k, then 2^k when the value is truthy and 0 when it is falsy; it
\* does not fail.
C7_BitWriteMaskValue ==
    /\ wresult # Pending
    /\ IsBitWrite(wtag)
    /\ wvalue \in {PyBool(TRUE), PyBool(FALSE), PyInt(1), PyInt(0)}
    => LET k == ToInt(SubElementOr0(wtag))
       IN  /\ wresult.kind = "bytes"
           /\ wresult.bytes = LittleEndian16(Pow2(k))
                  \o (IF wvalue.n # 0 THEN LittleEndian16(Pow2(k)) ELSE <<0, 0>>)

(***************************************************************************)
(* Properties of read and write (checked under Spec)                       *)
(***************************************************************************)
\* the address at position k of the call's arguments
AddressOf(k) == IF op = "read" THEN args[k] ELSE args[k].tag
\* the reply buffer is long enough to hold the status byte
HasStatus(raw) == Len(raw) > StatusOffset
StatusByte(raw) == raw[StatusOffset + 1]
Payload(raw) == SubSeq(raw, SLC_REPLY_START + 1, Len(raw))

\* the Tag made of the k-th reply when its status byte is not zero
FailedByStatus(k) ==
    /\ results[k].value = PyNone
    /\ results[k].error # PyNone
    /\ results[k].error = PCCC_ERROR_CODE(StatusByte(received[k].raw))

\* no exception comes from a reply: when the call raises, every request that
\* was submitted has been answered and its reply made into a Tag
NoExceptionFromReply ==
    pc = "raised" => Len(received) = Len(sent) /\ Len(results) = Len(sent)

\* C1: for the reply to each request of a read or write, a non-zero status
\* byte gives a Tag named after the address with value None and the status
\* message as error, and no exception; a status byte of 0 gives a written Tag
\* with error None and the value written, and gives a read Tag either with
\* error None and a value, or - the payload could not be decoded, as when it
\* is empty - with value None and the error "Failed parsing tag read reply".
C1_StatusToTag ==
    /\ NoExceptionFromReply
    /\ \A k \in 1..Len(results) :
          LET raw == received[k].raw
          IN  HasStatus(raw) =>
                /\ results[k].tag = parse_tag(AddressOf(k)).tag
                /\ StatusByte(raw) # SUCCESS => FailedByStatus(k)
                /\ StatusByte(raw) = SUCCESS /\ op = "write" =>
                      results[k].error = PyNone /\ results[k].value = args[k].value
                /\ StatusByte(raw) = SUCCESS /\ op = "read" =>
                      \/ results[k].error = PyNone /\ results[k].value # PyNone
                      \/ results[k].error = ParseFailed /\ results[k].value = PyNone
                /\ StatusByte(raw) = SUCCESS /\ op = "read" /\ Payload(raw) = <<>> =>
                      results[k].error = ParseFailed

\* C1 as stated: a status byte of 0 always gives a Tag with error None
C1_ZeroStatusNoError ==
    /\ NoExceptionFromReply
    /\ \A k \in 1..Len(results) :
          LET raw == received[k].raw
          IN  HasStatus(raw) =>
                /\ StatusByte(raw) # SUCCESS => FailedByStatus(k)
                /\ StatusByte(raw) = SUCCESS => results[k].error = PyNone

\* a read of two addresses has returned: the first reply carried a non-zero
\* status, the second the status 0 and no payload
C1_Witness ==
    /\ pc = "returned" /\ op = "read" /\ Len(results) = 2
    /\ HasStatus(received[1].raw) /\ StatusByte(received[1].raw) = 16
    /\ FailedByStatus(1)
    /\ HasStatus(received[2].raw) /\ StatusByte(received[2].raw) = SUCCESS
    /\ results[2].error = ParseFailed

\* C2: the error of an address is raised before any request for that
\* address is submitted: when the call raises at position idx, the requests
\* submitted during the call are those of the idx - 1 addresses before it,
\* all answered; a call that raises at its first address submitted nothing.
C2_ErrorBeforeItsRequest ==
    pc = "raised" =>
        /\ idx \in 1..Len(args)
        /\ Len(sent) = idx - 1
        /\ Len(received) = idx - 1
        /\ (idx = 1 => sent = <<>>)

\* C2 as stated: a call that raises has submitted no request
C2_NothingSubmitted == pc = "raised" => sent = <<>>

\* a call raised at its second address, after the request of the first
C2_Witness ==
    /\ pc = "raised" /\ idx = 2 /\ Len(sent) = 1
    /\ ret.exc = "RequestError"

\* the transaction identifier of the k-th request of a connection
Tns(k) == <<k % 256, k \div 256>>

\* C3: the k-th request submitted is that of the k-th address; a request is
\* outstanding exactly while the call waits, the earlier ones being answered;
\* a call whose addresses all parse and pack does not raise; a returned call
\* has submitted one request per address and returns one Tag per address,
\* named after it, in input order - the Tag itself when there is one address.
C3_OneRequestPerAddressInOrder ==
    /\ Len(sent) = Len(received) + (IF pc \in {"read_wait", "write_wait"} THEN 1 ELSE 0)
    /\ Len(results) = Len(received)
    /\ \A k \in 1..Len(sent) :
          /\ sent[k].tns = Tns(k)
          /\ sent[k].fnc = (IF op = "read" THEN SLC_FNC_READ ELSE SLC_FNC_WRITE)
          /\ SubSeq(sent[k].body, 1, 5) = AddressBytes(parse_tag(AddressOf(k))).bytes
    /\ \A k \in 1..Len(results) : results[k].tag = parse_tag(AddressOf(k)).tag
    /\ (pc = "raised" => LET r == IF op = "read" THEN read_request(args[idx], 0)
                                  ELSE write_request(args[idx].tag, args[idx].value, 0)
                         IN  r.kind = "raise")
    /\ (pc = "returned" =>
          /\ Len(sent) = Len(args) /\ Len(results) = Len(args)
          /\ ret = (IF Len(args) = 1 THEN [kind |-> "tag", value |-> results[1]]
                    ELSE [kind |-> "list", value |-> results]))

\* a write of two pairs has returned
C3_Witness ==
    /\ pc = "returned" /\ op = "write" /\ Len(args) = 2
    /\ Len(sent) = 2 /\ ret.kind = "list" /\ Len(ret.value) = 2
    /\ \A k \in 1..2 : ret.value[k].error = PyNone

\* the k-th address of a write names n > 1 elements and comes with a sequence
ManyElements(k) ==
    /\ op = "write" /\ k \in 1..Len(args)
    /\ parse_tag(args[k].tag).kind = "tag"
    /\ parse_tag(args[k].tag).element_count > 1
    /\ args[k].value.t \in {"list", "bytes"}
\* the elements of a sequence; those of a bytes object are its bytes
ElementsOf(v) == IF v.t = "bytes" THEN [i \in 1..Len(v.s) |-> PyInt(v.s[i])] ELSE v.s
\* the call raised at its k-th address / reached it without submitting its request
RaisedAt(k) == pc = "raised" /\ idx = k
FailedAt(k, exc) ==
    /\ Len(sent) < k
    /\ (idx >= k => RaisedAt(k) /\ ret.exc = exc)
\* the bytes that follow the address bytes in the k-th request
DataOf(k) == SubSeq(sent[k].body, 6, Len(sent[k].body))
\* each element packed on its own, the results joined in order
RECURSIVE Joined(_, _)
Joined(file_type, items) ==
    IF items = <<>> THEN <<>>
    ELSE pack_func(file_type, items[1]).bytes \o Joined(file_type, Tail(items))
\* the byte count data_size * n fits the request's size byte
SizeFits(t) == Pack_usint(PyInt(PCCC_DATA_SIZE(t.file_type) * t.element_count)).ok
EachPacks(t, items) == \A i \in 1..Len(items) : pack_func(t.file_type, items[i]).ok
\* the k-th request was submitted with the data d; the call did not raise there
WrittenAs(k, d) ==
    /\ ~RaisedAt(k)
    /\ (idx >= k => Len(sent) >= k)
    /\ (Len(sent) >= k => DataOf(k) = d)

ChunkRequests == IF Len(sent) > 2 THEN Len(sent) - 2 ELSE 0
ChunkRequest(j) == sent[j + 2]
ChunksAnswered == IF Len(received) > 2 THEN Len(received) - 2 ELSE 0
ChunkPayload(j) == Payload(received[j + 2].raw)
Completed == pc \in {"returned", "raised"}

\* the sum over the chunks before the j-th of (byte length div 2)
RECURSIVE WordsBefore(_)
WordsBefore(j) ==
    IF j <= 1 THEN 0 ELSE WordsBefore(j - 1) + (Len(ChunkPayload(j - 1)) \div 2)

\* the controller answered every chunk request with exactly the bytes asked for
ExactReplies ==
    \A j \in 1..ChunksAnswered :
        /\ HasStatus(received[j + 2].raw)
        /\ StatusByte(received[j + 2].raw) = SUCCESS
        /\ Len(ChunkPayload(j)) = RequestedSize(ChunkRequest(j))

\* every chunk request asks for at most 0x50 bytes at the offset that is the
\* sum over the previous chunks of (chunk byte length div 2)
ChunkRule ==
    \A j \in 1..ChunkRequests :
        /\ RequestedSize(ChunkRequest(j)) <= ChunkCap
        /\ RequestedOffset(ChunkRequest(j)) = WordsBefore(j)

\* C9: every chunk request asks for at most 0x50 bytes at the word offset
\* summed over the previous chunks; for a File 0 size of 130 bytes and exact
\* replies, discovery issues exactly 2 chunk requests: 80 bytes at offset 0,
\* then 50 bytes at offset 40.
C9_TwoChunksFor130 ==
    op = "get_file_directory" =>
        /\ ChunkRule
        /\ (file0_size = PyInt(130) /\ ExactReplies =>
              /\ ChunkRequests <= 2
              /\ (Completed =>
                    /\ ChunkRequests = 2
                    /\ RequestedSize(ChunkRequest(1)) = 80
                    /\ RequestedOffset(ChunkRequest(1)) = 0
                    /\ RequestedSize(ChunkRequest(2)) = 50
                    /\ RequestedOffset(ChunkRequest(2)) = 40))

\* C9 as stated: for 130 bytes and exact replies there are exactly 3 chunk
\* requests
C9_ThreeChunksFor130 ==
    op = "get_file_directory" =>
        /\ ChunkRule
        /\ (file0_size = PyInt(130) /\ ExactReplies /\ Completed => ChunkRequests = 3)

\* a discovery of 130 bytes with exact replies is complete
C9_Witness ==
    /\ op = "get_file_directory" /\ file0_size = PyInt(130)
    /\ ExactReplies /\ Completed /\ Len(file0_data) = 130
    /\ ChunkRequests = 2 /\ offset = 65

\* the sub-queries' failures, read from the replies
TypeFailed ==
    /\ Len(received) >= 1
    /\ \/ ~received[1].valid
       \/ \E b \in 6..16 : b <= Len(Payload(received[1].raw))
                             /\ Payload(received[1].raw)[b] >= 128
SizeFailed ==
    /\ Len(received) >= 2
    /\ \/ ~HasStatus(received[2].raw)
       \/ StatusByte(received[2].raw) # SUCCESS
       \/ Len(Payload(received[2].raw)) < 2
ChunkFailed(k) ==
    /\ k \in 3..Len(received)
    /\ HasStatus(received[k].raw) /\ StatusByte(received[k].raw) # SUCCESS

\* the operation raised a data error on the k-th reply: that reply was the
\* last thing received, no request followed it, nothing is returned
Aborted(k) ==
    /\ pc = "raised" /\ ret.kind = "raise" /\ ret.exc = "DataError"
    /\ Len(received) = k /\ Len(sent) = k

\* C10: in get_file_directory the first request is the processor-type query,
\* the second the directory-size query, the others chunk reads, each
\* submitted after the reply to the one before; when the processor type is
\* None, the size is None or a chunk reply has a non-zero status, the
\* operation raises a data error at that reply, submits no further request
\* and returns no mapping; a mapping is returned only of complete data.
C10_FailureAborts ==
    op = "get_file_directory" =>
        /\ Len(sent) = Len(received) + (IF Completed THEN 0 ELSE 1)
        /\ \A k \in 1..Len(sent) :
              /\ k = 1 => sent[k].cmd = 6 /\ sent[k].fnc = 3
              /\ k = 2 => sent[k].cmd = SLC_CMD_CODE /\ sent[k].fnc = 161
              /\ k > 2 => sent[k].cmd = SLC_CMD_CODE /\ sent[k].fnc = SLC_FNC_READ
        /\ (TypeFailed => Aborted(1))
        /\ (SizeFailed => Aborted(2))
        /\ \A k \in 3..Len(received) : ChunkFailed(k) => Aborted(k)
        /\ (pc = "returned" => ret.kind = "mapping" /\ Len(file0_data) >= file0_size.n)

\* the second chunk reply carried an error status after a first chunk was read
C10_Witness ==
    /\ op = "get_file_directory"
    /\ ChunkFailed(4) /\ Aborted(4)
    /\ Len(file0_data) = 80

(***************************************************************************)
(* Properties of the sequence counter (checked under SpecConn)             *)
(***************************************************************************)
\* C13: across any sequence of read, write, get_processor_type and
\* get_file_directory calls on one connection, the number of times the
\* sequence counter was taken equals the number of requests submitted to the
\* transport, also when a write fails while packing its value.
C13_TakenOncePerRequest == taken = submitted

(***************************************************************************)
(* Properties of the chunk-read loop (checked under SpecDir)               *)
(***************************************************************************)
\* one iteration of the while loop of _read_whole_file_directory: the reply
\* to a chunk request is taken in
LoopIteration == pc = "chunk_wait" /\ received' # received

\* the loop ends: the call returns or raises
LoopEnds == pc' \in {"returned", "raised"}

\* C14: the chunk-read loop of directory discovery terminates after finitely
\* many requests for every reported size and every sequence of replies: on
\* every iteration the accumulated byte count strictly grows or the loop ends.
C14_GrowsOrEnds ==
    [][LoopIteration => Len(file0_data') > Len(file0_data) \/ LoopEnds]_vars

=============================================================================
